---- MODULE Spec2Model ----
(***************************************************************************)
(* Model of switch-predb (src/main.py): the polling loop that scans the    *)
(* srrdb catalog, filters new releases, extracts the title id from the     *)
(* NFO, renders and uploads the NFO image, stores the record and posts it. *)
(* The program is single threaded; one action is one step of main_loop,    *)
(* handle_releases or the find_new_releases generator.  Network calls and  *)
(* external tools are inputs: their outcome is drawn in the action that    *)
(* makes the call.                                                         *)
(***************************************************************************)
EXTENDS Integers, Sequences, FiniteSets, TLC

VARIABLES
    config,        \* config.toml: debug, discord/ntfy/mongo enabled, renderer
    pc,            \* position of the single control flow
    exc,           \* exception that left main_loop ("None" while running)
    OLD_HASH_SET,  \* md5 keys of the release names seen so far
    CACHE,         \* [releases: name -> details, nfos: title id -> decoded nfo]
    scanNo,        \* number of scan_srrdb calls made
    releases,      \* result list of the current scan (generator input)
    idx,           \* position of the generator in releases
    initial,       \* the generator's local flag of the current scan
    release,       \* the entry the generator yielded last
    release_info,  \* the record get_info built for it (None before)
    buffer,        \* the rendered NFO image (None before the render)
    image,         \* index into ImageTypes inside upload_media
    response,      \* what the tweet post returned
    last_scan,     \* how the last catalog request ended (history)
    trav,          \* what happened to the yielded entry so far (history)
    cold_start,    \* the current scan found OLD_HASH_SET empty (history)
    cycle_sleeps,  \* sleeps of main_loop since the last scan (history)
    yielded,       \* per name, the scans that yielded it as new (history)
    tweets         \* how often each name has been posted (history)

vars == <<config, pc, exc, OLD_HASH_SET, CACHE, scanNo, releases, idx, initial,
          release, release_info, buffer, image, response, last_scan, trav,
          cold_start, cycle_sleeps, yielded, tweets>>

-----------------------------------------------------------------------------
(* Bounds of the model *)

MaxScans == 3

MaxScanLen == 2

(* Release names the catalog can list *)
Names == {"Game-GRP", "Update-VENOM"}

(* Python's None; a value that may be None is held as <<v>> *)
None == <<>>

-----------------------------------------------------------------------------
(* Pure helpers *)

(* md5(release["release"].encode()).hexdigest(): one key per name *)
md5hex(name) == <<"md5", name>>

HexChars == {"0","1","2","3","4","5","6","7","8","9",
             "A","B","C","D","E","F","a","b","c","d","e","f"}

(* the character class [A-Fa-f0-9X] of TITLE_ID_REGEX *)
IdChars == HexChars \cup {"X"}

(* minimum repetition of the character class in TITLE_ID_REGEX: {12,} *)
TITLE_ID_MIN_REPEAT == 12

(* int(c, 16) of one character *)
HexVal(c) ==
    CASE c = "0" -> 0 [] c = "1" -> 1 [] c = "2" -> 2 [] c = "3" -> 3
      [] c = "4" -> 4 [] c = "5" -> 5 [] c = "6" -> 6 [] c = "7" -> 7
      [] c = "8" -> 8 [] c = "9" -> 9
      [] c \in {"A", "a"} -> 10 [] c \in {"B", "b"} -> 11
      [] c \in {"C", "c"} -> 12 [] c \in {"D", "d"} -> 13
      [] c \in {"E", "e"} -> 14 [] c \in {"F", "f"} -> 15

(* one digit of hex(...).upper() *)
HexChar(v) ==
    CASE v = 0 -> "0" [] v = 1 -> "1" [] v = 2 -> "2" [] v = 3 -> "3"
      [] v = 4 -> "4" [] v = 5 -> "5" [] v = 6 -> "6" [] v = 7 -> "7"
      [] v = 8 -> "8" [] v = 9 -> "9" [] v = 10 -> "A" [] v = 11 -> "B"
      [] v = 12 -> "C" [] v = 13 -> "D" [] v = 14 -> "E" [] v = 15 -> "F"

(* 0xFFFFFFFFF0000000: a mask that clears the low seven hex digits *)
TITLE_ID_MASK_LOW_28_BITS ==
    <<15, 15, 15, 15, 15, 15, 15, 15, 15, 0, 0, 0, 0, 0, 0, 0>>

(* 0xFFFFFFFFFFFFE000 as its 16 hex digits, most significant first *)
TITLE_ID_BASE_MASK == <<15, 15, 15, 15, 15, 15, 15, 15, 15, 15, 15, 15, 14, 0, 0, 0>>

RECURSIVE BitAnd(_, _)
BitAnd(a, b) ==
    IF a = 0 \/ b = 0 THEN 0
    ELSE (a % 2) * (b % 2) + 2 * BitAnd(a \div 2, b \div 2)

(* x & TITLE_ID_BASE_MASK on digit sequences: the digits are aligned at the
   low end, digits of x above the mask's width are cleared *)
AndMask(ds) ==
    LET w == Len(TITLE_ID_BASE_MASK)
        n == IF Len(ds) < w THEN Len(ds) ELSE w
    IN  [i \in 1..n |->
            BitAnd(ds[Len(ds) - n + i], TITLE_ID_BASE_MASK[w - n + i])]

(* hex() prints no leading zero digits, and "0" for zero *)
RECURSIVE StripLeadingZeros(_)
StripLeadingZeros(ds) ==
    IF Len(ds) <= 1 THEN (IF ds = <<>> THEN <<0>> ELSE ds)
    ELSE IF ds[1] = 0 THEN StripLeadingZeros(Tail(ds))
    ELSE ds

mask_title_id(title_id) ==
    LET digits == [i \in 1..Len(title_id) |-> HexVal(title_id[i])]
        masked == StripLeadingZeros(AndMask(digits))
    IN  <<"0">> \o [i \in 1..Len(masked) |-> HexChar(masked[i])]

(* length of the run of [A-Fa-f0-9X] characters of text that starts at i *)
RECURSIVE RunLen(_, _)
RunLen(text, i) ==
    IF i > Len(text) \/ text[i] \notin IdChars THEN 0
    ELSE 1 + RunLen(text, i + 1)

(* TITLE_ID_REGEX.search(nfo): the leftmost match, greedy; None if no match *)
TitleIdSearch(nfo) ==
    LET starts == {i \in 1..Len(nfo) :
                      /\ i + 1 <= Len(nfo)
                      /\ nfo[i] = "0" /\ nfo[i + 1] = "1"
                      /\ RunLen(nfo, i + 2) >= TITLE_ID_MIN_REPEAT}
    IN  IF starts = {} THEN None
        ELSE LET s == CHOOSE i \in starts : \A j \in starts : i <= j
             IN  SubSeq(nfo, s, s + 1 + RunLen(nfo, s + 2))

(* .replace("X", "0") *)
ReplaceX(s) == [i \in 1..Len(s) |-> IF s[i] = "X" THEN "0" ELSE s[i]]

(* Decoded NFO texts the download can return *)
EmptyNfo == <<>>

NoIdNfo == <<"N","F","O"," ","0","1","0","0","A","B","\n">>

NfoP == <<"i","d",":"," ","0","1","0","0","A","B","C","D","E","F","1","2","3","4","5","6","\n">>

NfoQ == <<"0","1","X","0","A","B","C","D","E","F","1","2","3","4","5","6"," ","v","2">>

NfoR == <<"[","0","1","0","0","a","b","0","0","0","0","1","f","f","f","]">>

Nfos == {EmptyNfo, NoIdNfo, NfoP, NfoQ, NfoR}

-----------------------------------------------------------------------------
(* Inputs *)

(* config["render"]["renderer"]: the three known backends and another value *)
Renderers == {"pyansi", "builtin", "infekt", "ansilove"}

Configs == [debug : BOOLEAN, discord : BOOLEAN, ntfy : BOOLEAN,
            mongo : BOOLEAN, renderer : Renderers]

(* one entry of the "results" list of the catalog search; its hasNFO flag is
   read once, by handle_releases, and is drawn there *)
Candidates == [release : Names]

RECURSIVE SeqsUpTo(_, _)
SeqsUpTo(S, n) ==
    IF n = 0 THEN {<<>>}
    ELSE LET shorter == SeqsUpTo(S, n - 1)
         IN  shorter \cup {Append(q, x) : q \in shorter, x \in S}

ScanResults == SeqsUpTo(Candidates, MaxScanLen)

(* file names of a release: a name is the sequence of its parts *)
NfoFile == <<"rel", ".nfo">>

ProofFile == <<"rel", "-", "Proof", ".jpg">>

RarFile == <<"rel", ".r00">>

(* "Proof" in name *)
HasProof(name) == \E i \in 1..Len(name) : name[i] = "Proof"

(* the JSON a details request can return *)
DetailsValues == {[files |-> <<NfoFile, ProofFile>>],
                  [files |-> <<NfoFile, RarFile>>],
                  [files |-> <<NfoFile>>]}

(* the images of a release that upload_media walks through *)
ImageTypes == <<"thumb", "nfo", "proof">>

SRRDB_FILE_URL(release_name, file_name) == <<"srrdb", release_name, file_name>>

TINFOIL_URL(title_id) == <<"tinfoil", title_id>>

(* the URL the zipline sink returns for an uploaded file *)
ZiplineUrl(title, mode) == <<"zipline", title, mode>>

-----------------------------------------------------------------------------
(* State *)

NoTrav == [extract |-> "none", doc |-> None, render |-> "none",
           upload |-> "none", persist |-> "none",
           images |-> [t \in {"thumb", "nfo", "proof"} |-> "none"],
           post |-> "none", final |-> "none", sleeps |-> 0]

Init ==
    /\ config \in Configs
    /\ pc = "start"
    /\ exc = "None"
    /\ OLD_HASH_SET = {}
    /\ CACHE = [releases |-> <<>>, nfos |-> <<>>]
    /\ scanNo = 0
    /\ releases = <<>>
    /\ idx = 0
    /\ initial = FALSE
    /\ release = None
    /\ release_info = None
    /\ buffer = None
    /\ image = 0
    /\ response = None
    /\ last_scan = "none"
    /\ trav = NoTrav
    /\ cold_start = FALSE
    /\ cycle_sleeps = 0
    /\ yielded = [n \in Names |-> <<>>]
    /\ tweets = [n \in Names |-> 0]

DEBUG == config.debug

(* an exception nothing catches leaves main_loop and ends the process *)
Raise(e) == pc' = "crashed" /\ exc' = e

(* log(): with a sink enabled, requests.post of log_discord or log_ntfy is
   called without a handler and can raise *)
LogRaises == (config.discord \/ config.ntfy) /\ Raise("RequestException")

(* request_url logs before the request only in debug mode *)
DebugLogRaises == DEBUG /\ LogRaises

(* a stage that tries again instead of dropping the entry *)
ContinueRetries(field, outcome) ==
    /\ pc' = pc
    /\ exc' = exc
    /\ trav' = [trav EXCEPT ![field] = outcome]

(* a skip that runs into the time.sleep at the end of the loop body *)
ContinueSleeps(field, outcome) ==
    /\ pc' = IF DEBUG THEN "next" ELSE "sleep_release"
    /\ exc' = exc
    /\ trav' = [trav EXCEPT ![field] = outcome, !.final = "Skipped"]

(* `continue` in handle_releases: the entry is dropped *)
Continue(field, outcome) ==
    /\ pc' = "next"
    /\ exc' = exc
    /\ trav' = [trav EXCEPT ![field] = outcome, !.final = "Skipped"]

-----------------------------------------------------------------------------
(* main_loop and the find_new_releases generator *)

Start ==
    /\ pc = "start"
    /\ \/ LogRaises
       \/ pc' = "scan" /\ exc' = exc
    /\ UNCHANGED <<config, cycle_sleeps, OLD_HASH_SET, CACHE, scanNo,
                   releases, idx, initial, release, release_info, buffer,
                   image, response, last_scan, trav, cold_start, yielded,
                   tweets>>

(* scan_srrdb(): request_url(...)["results"]; the generator object is created
   and handle_releases starts to iterate it *)
Scan ==
    /\ pc = "scan"
    /\ scanNo < MaxScans
    /\ scanNo' = scanNo + 1
    /\ cold_start' = FALSE
    /\ cycle_sleeps' = 0
    /\ \/ DebugLogRaises /\ UNCHANGED <<releases, idx, last_scan>>
       \/ /\ last_scan' = "unreachable"
          /\ LogRaises \/ Raise("TypeError")
          /\ UNCHANGED <<releases, idx>>
       \/ \E results \in ScanResults :
             /\ last_scan' = "ok"
             /\ releases' = results
             /\ idx' = 0
             /\ pc' = "find_new"
             /\ exc' = exc
    /\ UNCHANGED <<config, OLD_HASH_SET, CACHE, initial, release, release_info,
                   buffer, image, response, trav, yielded, tweets>>

(* line 167 with the second `not` lost *)
IsInitialInDebugOnly == OLD_HASH_SET = {} /\ DEBUG

IsInitial == OLD_HASH_SET = {} /\ ~DEBUG

(* first next() on the generator: the body runs up to the loop *)
FindNewStart ==
    /\ pc = "find_new"
    /\ initial' = IsInitial
    /\ cold_start' = (OLD_HASH_SET = {})
    /\ idx' = 1
    /\ pc' = "gen"
    /\ UNCHANGED <<config, cycle_sleeps, exc, OLD_HASH_SET, CACHE, scanNo,
                   releases, release, release_info, buffer, image, response,
                   last_scan, trav, yielded, tweets>>

FindNewBootstrap ==
    /\ pc = "gen"
    /\ idx <= Len(releases)
    /\ initial
    /\ OLD_HASH_SET' = OLD_HASH_SET \cup {md5hex(releases[idx].release)}
    /\ idx' = idx + 1
    /\ UNCHANGED <<config, cycle_sleeps, pc, exc, CACHE, scanNo, releases,
                   initial, release, release_info, buffer, image, response,
                   last_scan, trav, cold_start, yielded, tweets>>

FindNewSeen ==
    /\ pc = "gen"
    /\ idx <= Len(releases)
    /\ ~initial
    /\ md5hex(releases[idx].release) \in OLD_HASH_SET
    /\ idx' = idx + 1
    /\ UNCHANGED <<config, cycle_sleeps, pc, exc, OLD_HASH_SET, CACHE, scanNo,
                   releases, initial, release, release_info, buffer, image,
                   response, last_scan, trav, cold_start, yielded, tweets>>

(* lines 176-181 with the add of line 179 lost *)
FindNewYieldForgets ==
    /\ pc = "gen"
    /\ idx <= Len(releases)
    /\ ~initial
    /\ md5hex(releases[idx].release) \notin OLD_HASH_SET
    /\ release' = <<releases[idx]>>
    /\ idx' = idx + 1
    /\ pc' = "found"
    /\ yielded' = [yielded EXCEPT ![releases[idx].release] = Append(@, scanNo)]
    /\ UNCHANGED <<config, cycle_sleeps, exc, OLD_HASH_SET, CACHE, scanNo,
                   releases, initial, release_info, buffer, image, response,
                   last_scan, trav, cold_start, tweets>>

FindNewYield ==
    /\ pc = "gen"
    /\ idx <= Len(releases)
    /\ ~initial
    /\ md5hex(releases[idx].release) \notin OLD_HASH_SET
    /\ OLD_HASH_SET' = OLD_HASH_SET \cup {md5hex(releases[idx].release)}
    /\ release' = <<releases[idx]>>
    /\ idx' = idx + 1
    /\ pc' = "found"
    /\ yielded' = [yielded EXCEPT ![releases[idx].release] = Append(@, scanNo)]
    /\ UNCHANGED <<config, cycle_sleeps, exc, CACHE, scanNo, releases,
                   initial, release_info, buffer, image, response, last_scan,
                   trav, cold_start, tweets>>

(* the generator is exhausted: handle_releases returns, main_loop returns in
   debug mode and sleeps otherwise *)
FindNewExhausted ==
    /\ pc = "gen"
    /\ idx > Len(releases)
    /\ pc' = IF DEBUG THEN "returned" ELSE "sleep_cycle"
    /\ UNCHANGED <<config, cycle_sleeps, exc, OLD_HASH_SET, CACHE, scanNo,
                   releases, idx, initial, release, release_info, buffer,
                   image, response, last_scan, trav, cold_start, yielded,
                   tweets>>

(* time.sleep(ONE_MINUTE) of main_loop *)
SleepCycle ==
    /\ pc = "sleep_cycle"
    /\ pc' = "scan"
    /\ cycle_sleeps' = cycle_sleeps + 1
    /\ UNCHANGED <<config, exc, OLD_HASH_SET, CACHE, scanNo, releases, idx,
                   initial, release, release_info, buffer, image, response,
                   last_scan, trav, cold_start, yielded, tweets>>

-----------------------------------------------------------------------------
(* handle_releases: the body of the loop over the yielded entries *)

Title == release[1].release

(* lines 488-493: the announcement of the find and the hasNFO test *)
Found ==
    /\ pc = "found"
    /\ \/ LogRaises /\ trav' = trav
       \/ \E hasNFO \in BOOLEAN :
             IF ~hasNFO
             THEN \/ LogRaises /\ trav' = [trav EXCEPT !.extract = "no_nfo"]
                  \/ Continue("extract", "no_nfo")
             ELSE pc' = "details" /\ exc' = exc /\ trav' = trav
    /\ UNCHANGED <<config, cycle_sleeps, OLD_HASH_SET, CACHE, scanNo,
                   releases, idx, initial, release, release_info, buffer,
                   image, response, last_scan, cold_start, yielded, tweets>>

(* what get_info does with the value get_details returned: None ends the
   entry, files[1] of a one-file release raises *)
UseDetails(details) ==
    IF details = None THEN Continue("extract", "details_absent")
    ELSE IF Len(details[1].files) < 2
         THEN Raise("IndexError") /\ trav' = trav
         ELSE pc' = "nfo" /\ exc' = exc /\ trav' = trav

(* get_details stores whatever the request returned under the name *)
StoreDetails(name, details) ==
    CACHE' = [CACHE EXCEPT !.releases = (name :> details) @@ @]

(* get_info lines 235-246 with get_details *)
GetDetails ==
    /\ pc = "details"
    /\ IF Title \in DOMAIN CACHE.releases
       THEN UseDetails(CACHE.releases[Title]) /\ CACHE' = CACHE
       ELSE \/ DebugLogRaises /\ UNCHANGED <<CACHE, trav>>
            \/ /\ LogRaises
               /\ trav' = [trav EXCEPT !.extract = "details_absent"]
               /\ CACHE' = CACHE
            \/ StoreDetails(Title, None) /\ UseDetails(None)
            \/ \E d \in DetailsValues :
                  StoreDetails(Title, <<d>>) /\ UseDetails(<<d>>)
    /\ UNCHANGED <<config, cycle_sleeps, OLD_HASH_SET, scanNo, releases, idx,
                   initial, release, release_info, buffer, image, response,
                   last_scan, cold_start, yielded, tweets>>

(* get_info without the "Proof" test of line 243: the second file is always
   taken for the proof *)
ReleaseInfoAlwaysProof(title, files, title_id) ==
    [tid        |-> title_id,
     masked_tid |-> mask_title_id(title_id),
     title      |-> title,
     proof      |-> <<SRRDB_FILE_URL(title, files[2])>>,
     nfo        |-> <<SRRDB_FILE_URL(title, files[1])>>,
     thumb      |-> <<TINFOIL_URL(mask_title_id(title_id))>>,
     media      |-> <<>>]

(* the record get_info returns (lines 258-267); size and crc are copied from
   the details and read by the post text only *)
ReleaseInfo(title, files, title_id) ==
    [tid        |-> title_id,
     masked_tid |-> mask_title_id(title_id),
     title      |-> title,
     proof      |-> IF HasProof(files[2])
                    THEN <<SRRDB_FILE_URL(title, files[2])>> ELSE None,
     nfo        |-> <<SRRDB_FILE_URL(title, files[1])>>,
     thumb      |-> <<TINFOIL_URL(mask_title_id(title_id))>>,
     media      |-> <<>>]

(* parse_nfo without the membership test of line 215: every parse stores *)
StoreNfoOverwrites(title_id, nfo) ==
    CACHE' = [CACHE EXCEPT !.nfos =
                 (title_id :> nfo) @@ [t \in DOMAIN @ \ {title_id} |-> @[t]]]

(* parse_nfo lines 215-216: the text is stored only under a new title id *)
StoreNfo(title_id, nfo) ==
    CACHE' = IF title_id \in DOMAIN CACHE.nfos THEN CACHE
             ELSE [CACHE EXCEPT !.nfos = (title_id :> nfo) @@ @]

(* parse_nfo and the rest of get_info (lines 248-267) *)
ParseNfo ==
    /\ pc = "nfo"
    /\ \/ LogRaises /\ UNCHANGED <<CACHE, release_info, trav>>
       \/ DebugLogRaises /\ UNCHANGED <<CACHE, release_info, trav>>
       \/ /\ LogRaises \/ Raise("AttributeError")
          /\ trav' = [trav EXCEPT !.extract = "doc_failed"]
          /\ UNCHANGED <<CACHE, release_info>>
       \/ \E nfo \in Nfos :
             LET match == TitleIdSearch(nfo)
                 title_id == ReplaceX(match)
             IN  IF nfo = EmptyNfo
                 THEN /\ Continue("extract", "doc_empty")
                      /\ UNCHANGED <<CACHE, release_info>>
                 ELSE IF match = None
                 THEN /\ \/ LogRaises /\ trav' = [trav EXCEPT !.extract = "no_id"]
                         \/ Continue("extract", "no_id")
                      /\ UNCHANGED <<CACHE, release_info>>
                 ELSE /\ StoreNfo(title_id, nfo)
                      /\ release_info' =
                            <<ReleaseInfo(Title, CACHE.releases[Title][1].files,
                                          title_id)>>
                      /\ trav' = [trav EXCEPT !.extract = "ok", !.doc = <<nfo>>]
                      /\ pc' = "render"
                      /\ exc' = exc
    /\ UNCHANGED <<config, cycle_sleeps, OLD_HASH_SET, scanNo, releases, idx,
                   initial, release, buffer, image, response, last_scan,
                   cold_start, yielded, tweets>>

(* the image format each backend is saved in (lines 501-511) *)
Mode(renderer) == IF renderer = "builtin" THEN "jpeg" ELSE "png"

(* the render wrapped in a handler that drops the entry *)
RenderFailureSkipped(e) == Continue("render", "failed")

(* an exception in the `with BytesIO()` block of handle_releases: there is no
   handler, it leaves handle_releases and main_loop *)
RenderFailure(e) ==
    /\ Raise(e)
    /\ trav' = [trav EXCEPT !.render = "failed"]

(* lines 500-516: the configured backend renders CACHE["nfos"][tid] *)
Render ==
    /\ pc = "render"
    /\ IF config.renderer \notin {"pyansi", "builtin", "infekt"}
       THEN RenderFailure("ValueError") /\ buffer' = buffer
       ELSE \/ LogRaises /\ UNCHANGED <<buffer, trav>>
            \/ RenderFailure("RenderError") /\ buffer' = buffer
            \/ /\ buffer' = <<[mode |-> Mode(config.renderer),
                               text |-> CACHE.nfos[release_info[1].tid]]>>
               /\ trav' = [trav EXCEPT !.render = "ok"]
               /\ pc' = "upload"
               /\ exc' = exc
    /\ UNCHANGED <<config, cycle_sleeps, OLD_HASH_SET, CACHE, scanNo,
                   releases, idx, initial, release, release_info, image,
                   response, last_scan, cold_start, yielded, tweets>>

(* upload_nfo with the test of line 518 lost: the round goes on whatever
   upload_nfo returned *)
UploadNfoResultIgnored ==
    /\ pc = "upload"
    /\ \/ LogRaises /\ UNCHANGED <<release_info, trav>>
       \/ DebugLogRaises /\ UNCHANGED <<release_info, trav>>
       \/ /\ \/ LogRaises
             \/ pc' = (IF config.mongo THEN "persist" ELSE "post") /\ exc' = exc
          /\ trav' = [trav EXCEPT !.upload = "failed"]
          /\ release_info' = release_info
       \/ /\ release_info' =
                <<[release_info[1] EXCEPT
                      !.nfo = <<ZiplineUrl(Title, buffer[1].mode)>>]>>
          /\ trav' = [trav EXCEPT !.upload = "ok"]
          /\ pc' = IF config.mongo THEN "persist" ELSE "post"
          /\ exc' = exc
    /\ UNCHANGED <<config, cycle_sleeps, OLD_HASH_SET, CACHE, scanNo,
                   releases, idx, initial, release, buffer, image, response,
                   last_scan, cold_start, yielded, tweets>>

(* upload_nfo and lines 518-519 *)
UploadNfo ==
    /\ pc = "upload"
    /\ \/ LogRaises /\ UNCHANGED <<release_info, trav>>
       \/ DebugLogRaises /\ UNCHANGED <<release_info, trav>>
       \/ /\ \/ LogRaises /\ trav' = [trav EXCEPT !.upload = "failed"]
             \/ Continue("upload", "failed")
          /\ release_info' = release_info
       \/ /\ Continue("upload", "empty")
          /\ release_info' = release_info
       \/ /\ release_info' =
                <<[release_info[1] EXCEPT
                      !.nfo = <<ZiplineUrl(Title, buffer[1].mode)>>]>>
          /\ trav' = [trav EXCEPT !.upload = "ok"]
          /\ pc' = IF config.mongo THEN "persist" ELSE "post"
          /\ exc' = exc
    /\ UNCHANGED <<config, cycle_sleeps, OLD_HASH_SET, CACHE, scanNo,
                   releases, idx, initial, release, buffer, image, response,
                   last_scan, cold_start, yielded, tweets>>

(* add_to_mongo (lines 521-522): insert_one reports a failure by raising *)
Persist ==
    /\ pc = "persist"
    /\ \/ LogRaises /\ trav' = trav
       \/ /\ Raise("PyMongoError")
          /\ trav' = [trav EXCEPT !.persist = "failed"]
       \/ /\ trav' = [trav EXCEPT !.persist = "ok"]
          /\ pc' = "post"
          /\ exc' = exc
    /\ UNCHANGED <<config, cycle_sleeps, OLD_HASH_SET, CACHE, scanNo,
                   releases, idx, initial, release, release_info, buffer,
                   image, response, last_scan, cold_start, yielded, tweets>>

(* post_to_twitter up to the loop of upload_media (lines 473-475, 435-437) *)
PostToTwitter ==
    /\ pc = "post"
    /\ \/ LogRaises /\ UNCHANGED <<release_info, image>>
       \/ /\ release_info' = <<[release_info[1] EXCEPT !.media = <<>>]>>
          /\ image' = 1
          /\ pc' = "media"
          /\ exc' = exc
    /\ UNCHANGED <<config, cycle_sleeps, OLD_HASH_SET, CACHE, scanNo,
                   releases, idx, initial, release, buffer, response,
                   last_scan, trav, cold_start, yielded, tweets>>

(* one round of the loop of upload_media (lines 439-469) *)
UploadMedia ==
    /\ pc = "media"
    /\ image <= Len(ImageTypes)
    /\ LET image_type == ImageTypes[image]
           url == release_info[1][image_type]
       IN  IF url = None
           THEN /\ image' = image + 1
                /\ trav' = [trav EXCEPT !.images[image_type] = "absent"]
                /\ UNCHANGED <<pc, exc, release_info>>
           ELSE \/ LogRaises /\ UNCHANGED <<release_info, image, trav>>
                \/ DebugLogRaises /\ UNCHANGED <<release_info, image, trav>>
                \/ /\ \/ LogRaises /\ image' = image
                      \/ image' = image + 1 /\ UNCHANGED <<pc, exc>>
                   /\ trav' = [trav EXCEPT !.images[image_type] = "failed"]
                   /\ release_info' = release_info
                \/ /\ release_info' =
                         <<[release_info[1] EXCEPT !.media =
                              Append(@, [url |-> url[1],
                                         media_id |-> <<image_type, Title>>])]>>
                   /\ trav' = [trav EXCEPT !.images[image_type] = "ok"]
                   /\ image' = image + 1
                   /\ UNCHANGED <<pc, exc>>
    /\ UNCHANGED <<config, cycle_sleeps, OLD_HASH_SET, CACHE, scanNo,
                   releases, idx, initial, release, buffer, response,
                   last_scan, cold_start, yielded, tweets>>

(* make_twitter_post and the tweet request (lines 476-483) *)
Tweet ==
    /\ pc = "media"
    /\ image > Len(ImageTypes)
    /\ \/ DebugLogRaises /\ UNCHANGED <<response, trav, tweets>>
       \/ /\ \/ LogRaises
             \/ pc' = "report" /\ exc' = exc
          /\ response' = None
          /\ trav' = [trav EXCEPT !.post = "rejected"]
          /\ tweets' = tweets
       \/ /\ response' = <<[data |-> [id |-> <<"tweet", Title>>]]>>
          /\ tweets' = [tweets EXCEPT ![Title] = @ + 1]
          /\ trav' = [trav EXCEPT !.post = "ok"]
          /\ pc' = "report"
          /\ exc' = exc
    /\ UNCHANGED <<config, cycle_sleeps, OLD_HASH_SET, CACHE, scanNo,
                   releases, idx, initial, release, release_info, buffer,
                   image, last_scan, cold_start, yielded>>

(* lines 526-538: the log call reads response['data']['id'] *)
Report ==
    /\ pc = "report"
    /\ IF response = None
       THEN Raise("TypeError") /\ trav' = trav
       ELSE \/ LogRaises /\ trav' = trav
            \/ /\ trav' = [trav EXCEPT !.final = "Announced"]
               /\ pc' = IF DEBUG THEN "returned" ELSE "sleep_release"
               /\ exc' = exc
    /\ UNCHANGED <<config, cycle_sleeps, OLD_HASH_SET, CACHE, scanNo,
                   releases, idx, initial, release, release_info, buffer,
                   image, response, last_scan, cold_start, yielded, tweets>>

(* time.sleep(ONE_MINUTE) of handle_releases (line 540) *)
SleepRelease ==
    /\ pc = "sleep_release"
    /\ pc' = "next"
    /\ trav' = [trav EXCEPT !.sleeps = @ + 1]
    /\ UNCHANGED <<config, cycle_sleeps, exc, OLD_HASH_SET, CACHE, scanNo,
                   releases, idx, initial, release, release_info, buffer,
                   image, response, last_scan, cold_start, yielded, tweets>>

(* line 487: the for statement asks the generator for the next entry; the
   locals of the finished round are dead *)
NextRelease ==
    /\ pc = "next"
    /\ pc' = "gen"
    /\ release' = None
    /\ release_info' = None
    /\ buffer' = None
    /\ response' = None
    /\ image' = 0
    /\ trav' = NoTrav
    /\ UNCHANGED <<config, cycle_sleeps, exc, OLD_HASH_SET, CACHE, scanNo,
                   releases, idx, initial, last_scan, cold_start, yielded,
                   tweets>>

-----------------------------------------------------------------------------

Next ==
    \/ Start
    \/ Scan
    \/ FindNewStart
    \/ FindNewBootstrap
    \/ FindNewSeen
    \/ FindNewYield
    \/ FindNewExhausted
    \/ SleepCycle
    \/ Found
    \/ GetDetails
    \/ ParseNfo
    \/ Render
    \/ UploadNfo
    \/ Persist
    \/ PostToTwitter
    \/ UploadMedia
    \/ Tweet
    \/ Report
    \/ SleepRelease
    \/ NextRelease

Spec == Init /\ [][Next]_vars

(* the interpreter runs the one thread of main_loop: a step that can be taken
   is taken. Every request has timeout=10 and both sleeps are finite; the
   renderer's external process (subprocess.run, line 344) is taken to return. *)
FairSpec == Spec /\ WF_vars(Next)

-----------------------------------------------------------------------------
(* Properties *)

Range(q) == {q[i] : i \in 1..Len(q)}

NoAlertSink == ~config.discord /\ ~config.ntfy

(* C1: a release name is yielded as new at most once in a process lifetime,
   its key is in the seen-set from then on, and it is posted at most once,
   however its processing ended. *)
C1_YieldedAtMostOnce ==
    \A n \in Names :
        /\ Len(yielded[n]) <= 1
        /\ yielded[n] # <<>> => md5hex(n) \in OLD_HASH_SET
        /\ tweets[n] <= Len(yielded[n])

(* C1 witness: a name yielded and posted in scan 2 was listed again by scan 3
   and the generator has passed it. *)
C1_Witness ==
    \E n \in Names :
        /\ yielded[n] = <<2>>
        /\ tweets[n] = 1
        /\ scanNo = 3
        /\ pc = "gen"
        /\ idx = 2
        /\ releases[1].release = n

(* C2: a scan that starts with an empty seen-set outside debug mode records
   every entry it passes and yields none, so no entry of it reaches the
   extraction, render, upload or post. *)
C2_ColdStart ==
    (cold_start /\ ~config.debug) =>
        /\ \A i \in 1..(idx - 1) : md5hex(releases[i].release) \in OLD_HASH_SET
        /\ \A n \in Names : scanNo \notin Range(yielded[n])
        /\ pc \in {"gen", "sleep_cycle", "scan"}
        /\ pc # "gen" => idx = Len(releases) + 1
        /\ release = None /\ release_info = None /\ trav = NoTrav

(* C2 witness: a cold scan of two different names has been drained. *)
C2_Witness ==
    /\ cold_start /\ ~config.debug
    /\ pc = "sleep_cycle"
    /\ Len(releases) = 2
    /\ releases[1] # releases[2]

(* C3: the bootstrap rule is applied in the first scan only: on a later scan
   an entry whose key is not in the seen-set is yielded, not bootstrapped. *)
C3_BootstrapOnlyInFirstScan ==
    (/\ scanNo > 1
     /\ pc = "gen"
     /\ idx <= Len(releases)
     /\ md5hex(releases[idx].release) \notin OLD_HASH_SET) => ~initial

(* C4: an unreachable catalog is a no-op and main_loop goes on (stated for
   the configurations without alert sink, where log cannot raise). *)
C4_UnreachableScanIsNoOp ==
    (NoAlertSink /\ last_scan = "unreachable") => exc = "None"

(* C5: every short-circuit of the extraction is non-fatal: the entry is
   skipped with nothing rendered, uploaded, stored or posted (stated for the
   configurations without alert sink). *)
C5_ExtractionShortCircuitIsNonFatal ==
    (/\ NoAlertSink
     /\ trav.extract \in {"details_absent", "doc_failed", "doc_empty", "no_id"})
    => /\ exc = "None"
       /\ pc = "next"
       /\ trav = [NoTrav EXCEPT !.extract = trav.extract, !.final = "Skipped"]

(* C6: after a failed artifact upload neither the store nor the post runs,
   the record keeps its document URL and the loop proceeds. *)
C6_UploadFailureSkipsRelease ==
    trav.upload \in {"failed", "empty"} =>
        /\ exc = "None"
        /\ pc = "next"
        /\ trav.persist = "none" /\ trav.post = "none"
        /\ release_info[1].nfo = <<SRRDB_FILE_URL(Title, NfoFile)>>

(* C7: a rejected post affects this release only: the loop proceeds (stated
   for the configurations without alert sink). *)
C7_RejectedPostIsNonFatal ==
    (NoAlertSink /\ trav.post = "rejected") => exc = "None"

(* C8: a failure of the persist stage does not stop the loop and does not
   block the post (stated for the configurations without alert sink). *)
C8_PersistFailureDoesNotBlock ==
    (NoAlertSink /\ trav.persist = "failed") => exc = "None"

(* C9: a render failure is not caught: the exception ends the process, so
   the release is not uploaded, stored or posted, no later entry of the scan
   is handled and no further scan starts. *)
C9_RenderFailureIsFatal ==
    trav.render = "failed" =>
        /\ pc = "crashed"
        /\ exc \in {"ValueError", "RenderError"}
        /\ trav.upload = "none" /\ trav.persist = "none" /\ trav.post = "none"
        /\ trav.final = "none"
        /\ tweets[Title] = 0
        /\ ~ENABLED Next

(* C9 witness: the external renderer failed while the scan still held an
   entry and further scans were possible. *)
C9_Witness ==
    /\ trav.render = "failed"
    /\ exc = "RenderError"
    /\ idx <= Len(releases)
    /\ scanNo < MaxScans

(* C10: get_details does not cache a failed fetch: no name is cached with
   an absent value. *)
C10_FailedFetchIsNotCached ==
    \A n \in DOMAIN CACHE.releases : CACHE.releases[n] # None

(* C11: the document cache is write-once per raw title id: a step never
   removes an entry and never changes the text stored under a title id that is
   already cached, whatever document a later parse_nfo call decodes, and a
   step that adds an entry leaves every other entry as it was. *)
C11_NfoCacheIsWriteOnce ==
    [][\A t \in DOMAIN CACHE.nfos :
          /\ t \in DOMAIN CACHE'.nfos
          /\ CACHE'.nfos[t] = CACHE.nfos[t]]_vars

(* parse_nfo has decoded a document that differs from the one cached under
   the title id it found, and the cache still holds the first one *)
C11_Witness ==
    /\ release_info # None
    /\ trav.doc # None
    /\ release_info[1].tid \in DOMAIN CACHE.nfos
    /\ CACHE.nfos[release_info[1].tid] # trav.doc[1]

(* C12: a request_url call that failed (the scan, the details or document
   fetch, the NFO upload, an image fetch or media upload, the tweet request)
   has handed its default to the caller: no RequestException has left it,
   whichever alert sinks are enabled and whether or not they answer. *)
C12_RequestFailureReturnsDefault ==
    (\/ last_scan = "unreachable"
     \/ trav.extract \in {"details_absent", "doc_failed"}
     \/ trav.upload = "failed"
     \/ \E t \in DOMAIN trav.images : trav.images[t] = "failed"
     \/ trav.post = "rejected")
        => exc # "RequestException"

(* the media list the claim expects: one entry for every image type whose
   fetch and upload both succeeded, in the order thumbnail, document, proof *)
ExpectedMedia ==
    LET done == SelectSeq(ImageTypes, LAMBDA t : trav.images[t] = "ok")
    IN  [i \in 1..Len(done) |->
            [url |-> release_info[1][done[i]][1],
             media_id |-> <<done[i], Title>>]]

(* C13: in the announce stage an image whose fetch or upload failed is only
   left out: the process does not end before the remaining images have had
   their turn and the text post has been sent, and the post is sent with a
   media list that holds exactly the images that succeeded, in order. *)
C13_FailedImageIsOnlyOmitted ==
    (\E t \in DOMAIN trav.images : trav.images[t] = "failed") =>
        /\ pc = "crashed" => trav.post # "none"
        /\ trav.post # "none" =>
              /\ \A t \in DOMAIN trav.images : trav.images[t] # "none"
              /\ release_info[1].media = ExpectedMedia

(* the positions of handle_releases inside the round of one entry *)
InTraversal ==
    pc \in {"found", "details", "nfo", "render", "upload", "persist", "post",
            "media", "report", "sleep_release"}

(* C14 as stated: the round of a yielded entry ends Skipped or Announced and
   in no other way. Stated for the entries whose extraction returned a record,
   with no alert sink enabled. *)
C14_EndsSkippedOrAnnounced ==
    (NoAlertSink /\ release # None /\ trav.extract = "ok" /\ ~InTraversal)
        => trav.final \in {"Skipped", "Announced"}

(* C14, amended: the round of a yielded entry ends in one of three ways:
   Skipped, Announced, or an uncaught exception that ends the process; no
   round is left in any other way, and under fair scheduling every entry
   that was yielded reaches one of the three. *)
C14_EndsSkippedAnnouncedOrFatal ==
    /\ [](release # None /\ ~InTraversal =>
            \/ trav.final \in {"Skipped", "Announced"} /\ exc = "None"
            \/ pc = "crashed" /\ exc # "None" /\ trav.final = "none")
    /\ (pc = "found") ~>
          (trav.final \in {"Skipped", "Announced"} \/ pc = "crashed")

(* an entry whose round was ended by the failure of the renderer *)
C14_Witness ==
    /\ release # None
    /\ pc = "crashed"
    /\ trav.extract = "ok"
    /\ trav.render = "failed"
    /\ trav.final = "none"

(* the end-to-end scenario: details and document fetched, a title id found,
   the second file no proof, rendered and uploaded, persistence disabled,
   thumbnail and document uploaded as media, the tweet accepted and reported *)
SuccessWithoutProof ==
    /\ release # None /\ release_info # None
    /\ Title \in DOMAIN CACHE.releases
    /\ CACHE.releases[Title] # None
    /\ ~HasProof(CACHE.releases[Title][1].files[2])
    /\ ~config.mongo
    /\ trav.extract = "ok" /\ trav.render = "ok" /\ trav.upload = "ok"
    /\ trav.images["thumb"] = "ok" /\ trav.images["nfo"] = "ok"
    /\ trav.post = "ok"
    /\ pc \notin {"report", "crashed"}

(* C15: in the end-to-end scenario without proof the traversal ends
   Announced, the record's proof is absent and no proof image was fetched or
   uploaded, nothing was persisted, the record's document URL is the URL the
   storage sink returned, and the media list holds exactly the thumbnail and
   the document, 2 entries. *)
C15_SuccessWithoutProof ==
    SuccessWithoutProof =>
        /\ trav.final = "Announced"
        /\ release_info[1].proof = None
        /\ trav.images["proof"] = "absent"
        /\ trav.persist = "none"
        /\ release_info[1].nfo = <<ZiplineUrl(Title, buffer[1].mode)>>
        /\ Len(release_info[1].media) = 2
        /\ release_info[1].media[1].url =
               TINFOIL_URL(release_info[1].masked_tid)
        /\ release_info[1].media[2].url = release_info[1].nfo[1]
        /\ tweets[Title] = 1

(* the scenario in the polling mode, the per-release delay still to come *)
C15_Witness ==
    /\ SuccessWithoutProof
    /\ ~DEBUG
    /\ pc = "sleep_release"

(* the raw title id of the masking example *)
ExampleRaw ==
    <<"0","1","0","0","A","B","C","D","E","F","1","2","3","4","5","6">>

(* a record whose raw title id is the one of the example *)
ExampleParsed == release_info # None /\ release_info[1].tid = ExampleRaw

(* C16 as stated: mask_title_id("0100ABCDEF123456") is "0100ABCDE0000000". *)
C16_MaskExampleAsStated ==
    ExampleParsed =>
        /\ mask_title_id(ExampleRaw) =
              <<"0","1","0","0","A","B","C","D","E","0","0","0","0","0","0","0">>
        /\ release_info[1].masked_tid = mask_title_id(ExampleRaw)

(* C16, amended: mask_title_id("0100ABCDEF123456") is "0100ABCDEF122000":
   the mask 0xFFFFFFFFFFFFE000 clears the low 13 bits, and the record built
   from a document with that title id carries this masked id. *)
C16_MaskExample ==
    ExampleParsed =>
        /\ mask_title_id(ExampleRaw) =
              <<"0","1","0","0","A","B","C","D","E","F","1","2","2","0","0","0">>
        /\ release_info[1].masked_tid = mask_title_id(ExampleRaw)

(* get_info has built the record of a document that names the example id
   itself, no placeholder in it *)
C16_Witness == ExampleParsed /\ trav.doc = <<NfoP>>

(* raw & 0xFFFFFFFFFFFFE000 written as 16 upper-case hex digits, zeros on the
   left: the low 16 digits of raw, each and-ed with the mask's digit *)
MaskedSixteen(raw) ==
    LET w == Len(TITLE_ID_BASE_MASK)
        digit(i) == IF i + Len(raw) - w >= 1
                    THEN HexVal(raw[i + Len(raw) - w]) ELSE 0
    IN  [i \in 1..w |-> HexChar(BitAnd(digit(i), TITLE_ID_BASE_MASK[i]))]

(* C19: for every raw title id parse_nfo returns, the masked id of the record
   is raw & BASE_MASK as exactly 16 upper-case hex digits, zeros on the
   left. *)
C19_MaskedIsSixteenDigits ==
    release_info # None =>
        /\ Len(release_info[1].tid) >= 2 + TITLE_ID_MIN_REPEAT
        /\ Len(release_info[1].masked_tid) = 16
        /\ release_info[1].masked_tid = MaskedSixteen(release_info[1].tid)

(* C17: the stages of one round come in order. The announce stage (media
   uploads, tweet) and the persist stage are entered only with the NFO image
   of this release uploaded, the upload only with its render returned, the
   render only with a record from get_info that carries a raw title id and
   its masked id, and get_info only for an entry find_new_releases yielded;
   a round without such a record has rendered, uploaded, persisted and
   announced nothing. *)
C17_StageOrdering ==
    LET announcing == \/ pc \in {"post", "media", "report"}
                      \/ trav.post # "none"
                      \/ \E t \in DOMAIN trav.images : trav.images[t] # "none"
        persisting == pc = "persist" \/ trav.persist # "none"
        uploading  == pc = "upload" \/ trav.upload # "none"
        rendering  == pc = "render" \/ trav.render # "none"
        extracting == pc \in {"details", "nfo"} \/ trav.extract # "none"
    IN  /\ announcing \/ persisting => trav.upload = "ok"
        /\ uploading => trav.render = "ok" /\ buffer # None
        /\ rendering =>
              /\ trav.extract = "ok"
              /\ release_info # None
              /\ Len(release_info[1].tid) >= 2 + TITLE_ID_MIN_REPEAT
              /\ \A i \in DOMAIN release_info[1].tid :
                    release_info[1].tid[i] \in HexChars
              /\ release_info[1].masked_tid # <<>>
        /\ extracting =>
              /\ release # None
              /\ yielded[Title] # <<>>
              /\ md5hex(Title) \in OLD_HASH_SET
        /\ release_info = None =>
              ~(rendering \/ uploading \/ persisting \/ announcing)

(* a round that has gone through every stage, persistence included *)
C17_Witness ==
    /\ trav.extract = "ok" /\ trav.render = "ok" /\ trav.upload = "ok"
    /\ trav.persist = "ok" /\ trav.post = "ok"
    /\ trav.final = "Announced"

(* C18: pacing when debug is off. A round that is over has slept the
   per-release delay once if the release was announced and not at all if it
   was skipped; when a scan is about to start after an earlier one, the
   inter-cycle delay has been slept exactly once since that scan started,
   whatever the number of entries it listed, and every entry of its list has
   been consumed and its round is over. *)
C18_Pacing ==
    ~DEBUG =>
        /\ trav.sleeps \in {0, 1} /\ cycle_sleeps \in {0, 1}
        /\ trav.sleeps = 1 => trav.final = "Announced"
        /\ pc = "next" =>
              /\ trav.final = "Announced" => trav.sleeps = 1
              /\ trav.final = "Skipped" => trav.sleeps = 0
        /\ pc = "sleep_cycle" => cycle_sleeps = 0
        /\ (pc = "scan" /\ scanNo >= 1) =>
              /\ cycle_sleeps = 1
              /\ idx = Len(releases) + 1
              /\ release = None

(* debug off: the second scan's only new release has been announced and has
   slept its delay, after the inter-cycle delay of the first scan *)
C18_Witness ==
    /\ ~DEBUG
    /\ scanNo >= 2
    /\ pc = "next"
    /\ trav.final = "Announced"
    /\ trav.sleeps = 1

(* C20: the text the renderer has turned into the image of a release is the
   text parse_nfo decoded from that release's own NFO file, also when an
   earlier release with another document gave the same raw title id. *)
C20_RendersOwnDocument ==
    trav.render = "ok" =>
        /\ buffer # None
        /\ trav.doc # None
        /\ buffer[1].text = trav.doc[1]

====
